---------------------------- MODULE Spec2Model ----------------------------
(***************************************************************************)
(* django-versioning: revision sequencing (Revision.save), the signal      *)
(* handlers that record a change (pre_save / post_save), revert            *)
(* (Revision.reapply) and diff rendering (Revision.display_diff), for one  *)
(* tracked object and its history line.                                    *)
(*                                                                         *)
(* Every database access of the code is one atomic step of one process;    *)
(* the code between two accesses is folded into the step that follows it.  *)
(* Fields whose name starts with g_ are history (ghost) fields: the code   *)
(* does not have them; no guard reads them, and they are read only to      *)
(* assign other history fields.                                            *)
(***************************************************************************)
EXTENDS Integers, Sequences, FiniteSets, TLC

(* ------------------------------ bounds -------------------------------- *)

\* Revisions the store may hold in a run of the "contention" workload.
MaxRevs == 24

\* Revisions the store may hold in a run of the "serial" workload.
MaxSerial == 4

\* Revisions the store may hold in a run of the "edits" and "principals"
\* workloads; in the "contention" workload the operations that start once
\* MaxEdits revisions exist are saves of one process.
MaxEdits == 3

(* --------------------------- program constants ------------------------ *)

\* models.py:76  "if attempt > 20: raise"
MaxAttempts == 20

Procs == {"w1", "w2"}

\* The tracked model and its registered fields (_registry[model]).
ModelName == "Article"
Fields == {"title"}

\* Text values a caller assigns to the tracked field in the "edits"
\* workload; "A" is the value of an entity that exists before it is tracked.
EditValues == {"B", "C"}

\* The model's text fields: "body" is a field that is not (any longer)
\* registered for versioning.
EntityFields == {"title", "body"}

\* A model that is not the content object's class.
OtherModel == "Page"

\* model(): the field default of an unsaved instance (CharField: '').
DefaultFields == [f \in EntityFields |-> ""]

None == "None"

\* Users: alice and bob are saved users, anon is an AnonymousUser (pk None).
Alice == "alice"
Bob == "bob"
Anon == "anon"

\* getattr(user, 'pk', None); 0 stands for None.
Pk(u) == CASE u = Alice -> 1 [] u = Bob -> 2 [] OTHER -> 0

\* Python truth value of info.get('editor') / info.get('editor_ip').
Truthy(x) == x # None /\ x # ""

\* get_request(): no request, or a request of the user bob whose META
\* holds no REMOTE_ADDR (request.META.get("REMOTE_ADDR") is None).
NoRequest == [present |-> FALSE, user |-> None, addr |-> None]
Requests == {NoRequest, [present |-> TRUE, user |-> Bob, addr |-> None]}

\* Editors a caller may put in revision_info / pass to reapply.
CallerEditors == {None, Alice, Anon}

(* ------------------------- diff / patch codec ------------------------- *)

\* utils.diff(new, old): the patch that turns the text new into old.
Diff(new, old) == [from |-> new, to |-> old]

\* dmp.patch_apply(patch, text)[0]: an empty patch has no hunk and leaves
\* the text alone; a hunk that does not match the text is dropped.
PatchApply(patch, text) ==
    IF patch.from = patch.to THEN text
    ELSE IF text = patch.from THEN patch.to
    ELSE text

\* force_unicode(value) of a text value.
ForceUnicode(v) == v

\* utils.obj_diff(instance, original): one block per registered field,
\* keyed "<Model>.<field>", holding diff(new, old).
ObjDiff(instance, original) ==
    [k \in {<<ModelName, f>> : f \in Fields} |->
        Diff(ForceUnicode(instance[k[2]]), ForceUnicode(original[k[2]]))]

\* utils.diff_split_by_fields(delta): key -> patch text.
DiffSplitByFields(delta) == delta

\* hashlib.sha1(delta).hexdigest()
Sha1(delta) == <<"sha1", delta>>

(* --------------------------- field coercion --------------------------- *)

\* fobj.null and fobj.get_internal_type() of the tracked fields.
FieldNull(f) == FALSE
FieldType(f) == "CharField"

\* reapply, lines 107-116: text back to the field's python value.
Coerce(f, content) ==
    LET c1 == IF content = "None" /\ FieldNull(f) THEN None ELSE content
        c2 == IF FieldType(f) \in {"BooleanField", "NullBooleanField"}
              THEN (IF c1 = "True" THEN "True"
                    ELSE IF c1 = "False" THEN "False" ELSE c1)
              ELSE c1
    IN  c2

(* ------------------------------ the store ----------------------------- *)

VARIABLES
    stored,     \* the tracked entity's row: [exists, f]
    revs,       \* the Revision table, in id order (id = index)
    pc,         \* each process's position
    loc,        \* each process's local variables
    serial,     \* history: no two operations have overlapped so far
    load        \* the workload of this run, which bounds the callers' inputs

vars == <<stored, revs, pc, loc, serial, load>>

NoRow == [exists |-> FALSE, f |-> DefaultFields]

\* A Revision instance before it has any data.
NoRev == [id |-> 0, revision |-> 0, reverted |-> FALSE, sha1 |-> Sha1(<<>>),
          delta |-> <<>>, comment |-> "", editor |-> None, editor_ip |-> None,
          g_pre |-> DefaultFields, g_post |-> DefaultFields]

\* instance.revision_info: the keys present and their values.
NoInfo == [keys |-> {}, delta |-> <<>>, comment |-> "", editor |-> None,
           editor_ip |-> None]

\* dict.get(key)
InfoGet(info, key) == IF key \in info.keys THEN info[key] ELSE None

Idle == [op |-> "none", inst |-> DefaultFields, info |-> NoInfo,
         rev |-> NoRev, attempt |-> 0, self |-> NoRev, todo |-> <<>>,
         editor |-> None, editor_ip |-> None, result |-> <<>>,
         g_created |-> FALSE, g_nochange |-> FALSE, g_tries |-> 0,
         g_new |-> 0, g_readLen |-> 0, g_cand |-> 0, g_flagged |-> {},
         g_changed |-> {}, g_applied |-> <<>>, g_editor |-> None,
         g_request |-> NoRequest, g_pre |-> DefaultFields, g_len |-> 0,
         g_recon |-> DefaultFields, calls |-> 0, g_first |-> <<>>,
         g_snap |-> <<>>, g_same |-> FALSE, g_again |-> FALSE,
         g_skipped |-> {}, g_old |-> DefaultFields, g_bad |-> FALSE]

Resting == {"idle", "saved", "raised", "diffed"}

\* An operation is running in some process other than p.
OthersActive(p) == \E q \in Procs \ {p} : pc[q] \notin Resting

\* Some finished call has not yet returned to its caller.
Lingering == \E q \in Procs : pc[q] \in {"saved", "raised", "diffed"}

\* Saves that are under way and have not yet inserted their Revision.
InFlight == Cardinality({q \in Procs : pc[q] \in {"write", "post", "insert",
                                                  "query", "replay"}})

\* The workloads.  "serial": anonymous callers assign any of EditValues,
\* revert and render diffs, one call after the other; a caller may save
\* the instance of its finished call again, and render a diff twice.  "edits": the same
\* calls, overlapping (a diff starts between the other calls, which may
\* then overtake it).  "principals": the callers write one value and
\* revert, with any editor and request.  "contention": anonymous callers
\* write one value back up to MaxRevs times, and revert early on.
\* "legacy": the calls of "serial", on a history whose deltas hold
\* blocks of a related model and of a field that was registered then.
Loads == {"serial", "edits", "principals", "contention", "legacy"}

\* The workloads whose calls never overlap.
Serials == {"serial", "legacy"}

\* The most Revisions this run's workload lets the store hold.
Cap == CASE load = "contention" -> MaxRevs
         [] load \in Serials -> MaxSerial
         [] OTHER -> MaxEdits

\* The history is still short.
Early == Len(revs) + InFlight < (IF load \in Serials THEN MaxSerial
                                 ELSE MaxEdits)

\* A call may start in process p.
MayStart(p) == /\ pc[p] = "idle"
               /\ ~Lingering
               /\ load \in Serials => \A q \in Procs : pc[q] = "idle"

\* An operation that adds a Revision may start in process p: once the
\* history is long, only the process Hammer goes on saving, and only
\* against calls of Revision.save that wait to insert.
Hammer == "w2"
Room(p) == /\ Len(revs) + InFlight < Cap
           /\ \/ Early
              \/ /\ p = Hammer
                 /\ \A q \in Procs \ {p} : pc[q] \in Resting \cup {"insert"}

\* The inputs the workload lets a caller choose from.
InValues == IF load \in {"serial", "edits", "legacy"} THEN EditValues
            ELSE {"A"}
InEditors == IF load = "principals" THEN CallerEditors ELSE {None}
InRequests == IF load = "principals" THEN Requests ELSE {NoRequest}

\* The history of the "legacy" workload.  Revision 1 created the entity
\* with title "A" and body "X"; revision 2 set title "B" and body "" and
\* changed a related Page in the same change.  Both were recorded while
\* "body" was registered.
LegacyEntity == [exists |-> TRUE, f |-> [title |-> "B", body |-> ""]]
LegacyDelta1 ==
    [k \in {<<ModelName, "title">>, <<ModelName, "body">>} |->
        IF k[2] = "title" THEN Diff("A", "") ELSE Diff("X", "")]
LegacyDelta2 ==
    [k \in {<<ModelName, "title">>, <<ModelName, "body">>,
            <<OtherModel, "title">>} |->
        IF k[1] = OtherModel THEN Diff("B", "P")
        ELSE IF k[2] = "title" THEN Diff("B", "A") ELSE Diff("", "X")]
LegacyRevs ==
    << [NoRev EXCEPT !.id = 1, !.revision = 1, !.delta = LegacyDelta1,
                     !.sha1 = Sha1(LegacyDelta1),
                     !.g_post = [title |-> "A", body |-> "X"]],
       [NoRev EXCEPT !.id = 2, !.revision = 2, !.delta = LegacyDelta2,
                     !.sha1 = Sha1(LegacyDelta2),
                     !.g_pre = [title |-> "A", body |-> "X"],
                     !.g_post = [title |-> "B", body |-> ""]] >>

Init ==
    /\ load \in Loads
    /\ IF load = "legacy"
       THEN stored = LegacyEntity /\ revs = LegacyRevs
       ELSE /\ stored \in {NoRow} \cup
                   {[exists |-> TRUE,
                     f |-> [DefaultFields EXCEPT !["title"] = "A"]] :
                       l \in {load} \cap {"serial", "edits"}}
            /\ revs = <<>>
    /\ pc = [p \in Procs |-> "idle"]
    /\ loc = [p \in Procs |-> Idle]
    /\ serial = TRUE

(* ------------------------------ pre_save ------------------------------ *)

\* hasattr(info, 'editor'): info is a dict, and a dict has no attribute
\* named after one of its keys.
DictAttrs == {"get", "items", "keys", "values", "update", "pop"}
HasAttr(dict, name) == name \in DictAttrs

\* signals.pre_save, lines 19-27, given the row read at line 16.
PreSaveInfo(info, instance, original, request) ==
    LET i1 == [info EXCEPT !.keys = @ \cup {"delta"},
                           !.delta = ObjDiff(instance, original)]
        i2 == IF request.present /\ ~Truthy(InfoGet(i1, "editor"))
              THEN [i1 EXCEPT !.keys = @ \cup {"editor"},
                              !.editor = request.user]
              ELSE i1
        i3 == IF request.present /\ ~Truthy(InfoGet(i2, "editor_ip"))
              THEN [i2 EXCEPT !.keys = @ \cup {"editor_ip"},
                              !.editor_ip = request.addr]
              ELSE i2
    IN  IF ~HasAttr(i3, "editor") \/ Pk(i3.editor) = 0
        THEN [i3 EXCEPT !.keys = @ \cup {"editor"}, !.editor = None]
        ELSE i3

\* The row pre_save reads at lines 15-18.
Original == IF stored.exists THEN stored.f ELSE DefaultFields

\* A caller saves the tracked entity: Model.save() runs pre_save.  The
\* entity's first save (instance.pk is None) is made once, by one caller:
\* a second unsaved instance would be another object with its own history.
PreSave(p) ==
    /\ MayStart(p)
    /\ Room(p)
    /\ stored.exists \/ (revs = <<>> /\ InFlight = 0)
    /\ \E v \in InValues, ed \in InEditors, rq \in InRequests :
        LET instance == [f \in EntityFields |->
                            IF f \in Fields THEN v ELSE Original[f]]
            info0 == IF ed = None THEN NoInfo
                     ELSE [NoInfo EXCEPT !.keys = {"editor"}, !.editor = ed]
        IN  loc' = [loc EXCEPT ![p] =
                      [Idle EXCEPT !.op = "save",
                                   !.inst = instance,
                                   !.info = PreSaveInfo(info0, instance,
                                                        Original, rq),
                                   !.g_created = ~stored.exists,
                                   !.g_nochange = (instance = Original),
                                   !.g_editor = ed,
                                   !.g_request = rq]]
    /\ pc' = [pc EXCEPT ![p] = "write"]
    /\ serial' = (serial /\ ~OthersActive(p))
    /\ UNCHANGED <<stored, revs, load>>

\* The caller of a finished save or revert changes the same in-memory
\* instance and saves it again without setting revision_info: pre_save
\* finds the attribute it (or reapply) left on the instance (lines 11-13).
PreSaveAgain(p) ==
    /\ pc[p] = "saved"
    /\ loc[p].op \in {"save", "reapply"}
    /\ load \in Serials
    /\ \A q \in Procs \ {p} : pc[q] = "idle"
    /\ Len(revs) < Cap
    /\ \E v \in InValues, rq \in InRequests :
        LET instance == [f \in DOMAIN loc[p].inst |->
                            IF f \in Fields THEN v ELSE loc[p].inst[f]]
        IN  loc' = [loc EXCEPT ![p] =
                      [Idle EXCEPT !.op = "save",
                                   !.inst = instance,
                                   !.info = PreSaveInfo(loc[p].info, instance,
                                                        Original, rq),
                                   !.g_nochange = (instance = Original),
                                   !.g_request = rq,
                                   !.g_again = TRUE]]
    /\ pc' = [pc EXCEPT ![p] = "write"]
    /\ UNCHANGED <<stored, revs, serial, load>>

\* Model.save() writes the entity's row between the two signals.
WriteRow(p) ==
    /\ pc[p] = "write"
    /\ stored' = [exists |-> TRUE, f |-> loc[p].inst]
    /\ loc' = [loc EXCEPT ![p].g_pre = Original]
    /\ pc' = [pc EXCEPT ![p] = "post"]
    /\ UNCHANGED <<revs, serial, load>>

(* ---------------------------- Revision.save --------------------------- *)

\* Revision.objects.get_for_object(obj).latest(): get_latest_by = 'id'.
Latest(rows) == rows[Len(rows)]

\* A variant of Candidate that starts an empty history at 0.
CandidateFromZero(rows) ==
    IF rows = <<>> THEN 0 ELSE Latest(rows).revision + 1

\* Revision.save, lines 61-67: the first candidate number.
Candidate(rows) ==
    IF rows = <<>> THEN 1 ELSE Latest(rows).revision + 1

\* A variant of Conflict without the unique constraint.
ConflictIgnored(rows, r) == FALSE

\* unique_together (object_id, content_type, revision): the insert or
\* update of row r is rejected when another row holds its number.
Conflict(rows, r) ==
    \E i \in DOMAIN rows : i # r.id /\ rows[i].revision = r.revision

\* A variant of Bump that skips a number.
BumpByTwo(n) == n + 2

\* Revision.save, line 74: the next candidate after an IntegrityError.
Bump(n) == n + 1

\* A variant of GiveUp that re-raises the first IntegrityError.
GiveUpAtOnce(attempt) == attempt > 0

\* Revision.save, line 76: give up.
GiveUp(attempt) == attempt > MaxAttempts

\* A variant of SaveSha1 that keeps the fingerprint the instance came with.
SaveSha1Kept(r) == r.sha1

\* Revision.save, lines 58-60: the fingerprint is computed from the delta
\* on every call, before the row is written.
SaveSha1(r) == Sha1(ForceUnicode(r.delta))

\* Revision(**info): the keyword arguments set the instance's fields.
NewRevision(info) ==
    [NoRev EXCEPT !.delta = InfoGet(info, "delta"),
                  !.comment = IF "comment" \in info.keys
                              THEN info.comment ELSE "",
                  !.editor = InfoGet(info, "editor"),
                  !.editor_ip = InfoGet(info, "editor_ip")]

\* signals.post_save, then Revision.save up to the first insert attempt.
PostSave(p) ==
    /\ pc[p] = "post"
    /\ IF loc[p].info.keys # {}
       THEN /\ loc' = [loc EXCEPT
                  ![p].rev = [NewRevision(loc[p].info) EXCEPT
                                 !.sha1 = SaveSha1(NewRevision(loc[p].info)),
                                 !.revision = Candidate(revs),
                                 !.g_pre = loc[p].g_pre],
                  ![p].attempt = 0,
                  ![p].g_readLen = Len(revs),
                  ![p].g_cand = Candidate(revs)]
            /\ pc' = [pc EXCEPT ![p] = "insert"]
       ELSE /\ pc' = [pc EXCEPT ![p] = "saved"]
            /\ loc' = loc
    /\ UNCHANGED <<stored, revs, serial, load>>

\* One pass of the loop of Revision.save, lines 69-77, for a new row.
InsertAttempt(p) ==
    /\ pc[p] = "insert"
    /\ IF Conflict(revs, loc[p].rev)
       THEN /\ loc' = [loc EXCEPT ![p].rev.revision = Bump(@),
                                  ![p].attempt = @ + 1,
                                  ![p].g_tries = @ + 1]
            /\ pc' = [pc EXCEPT ![p] =
                        IF GiveUp(loc[p].attempt + 1) THEN "raised"
                        ELSE "insert"]
            /\ revs' = revs
       ELSE /\ revs' = Append(revs, [loc[p].rev EXCEPT
                                        !.id = Len(revs) + 1,
                                        !.g_post = stored.f])
            /\ loc' = [loc EXCEPT ![p].rev.id = Len(revs) + 1,
                                  ![p].g_tries = @ + 1,
                                  ![p].g_new = Len(revs) + 1]
            /\ pc' = [pc EXCEPT ![p] = "saved"]
    /\ UNCHANGED <<stored, serial, load>>

(* --------------------------- Revision.reapply ------------------------- *)

\* The rows of a queryset result, highest first by key (a number per row).
RECURSIVE Descending(_, _)
Descending(rows, key) ==
    IF rows = {} THEN <<>>
    ELSE LET top == CHOOSE r \in rows :
                        \A o \in rows : <<key[o.id], o.id>> = <<key[r.id], r.id>>
                            \/ key[o.id] < key[r.id]
                            \/ (key[o.id] = key[r.id] /\ o.id < r.id)
         IN  <<top>> \o Descending(rows \ {top}, key)

Rows(rows) == {rows[i] : i \in DOMAIN rows}

\* A variant of NextChanges that leaves out the reverted changesets.
NextChangesUnreverted(rows, self) ==
    Descending({r \in Rows(rows) : r.revision > self.revision /\ ~r.reverted},
               [i \in DOMAIN rows |-> rows[i].revision])

\* A variant of NextChanges that filters with revision__gte.
NextChangesInclusive(rows, self) ==
    Descending({r \in Rows(rows) : r.revision >= self.revision},
               [i \in DOMAIN rows |-> rows[i].revision])

\* reapply, lines 88-92: filter(revision__gt=...).order_by('-revision')
NextChanges(rows, self) ==
    Descending({r \in Rows(rows) : r.revision > self.revision},
               [i \in DOMAIN rows |-> rows[i].revision])

\* reapply, lines 101-103, and display_diff, lines 152-154: the keys of
\* the blocks the loop passes over.
SkippedKeys(delta) ==
    {k \in DOMAIN DiffSplitByFields(delta) :
        k[1] # ModelName \/ k[2] \notin Fields}

\* A variant of ReapplyDelta that applies every block whose field the
\* entity has, whatever its model and the registry.
ReapplyDeltaUnfiltered(inst, delta) ==
    LET diffs == DiffSplitByFields(delta)
    IN  [f \in DOMAIN inst |->
            IF \E k \in DOMAIN diffs : k[2] = f
            THEN LET k == CHOOSE k \in DOMAIN diffs : k[2] = f
                 IN  Coerce(f, PatchApply(diffs[k], ForceUnicode(inst[f])))
            ELSE inst[f]]

\* reapply, lines 99-117: the blocks of one changeset applied to the
\* instance; a block of another model or of an unregistered field is skipped.
ReapplyDelta(inst, delta) ==
    LET diffs == DiffSplitByFields(delta)
    IN  [f \in DOMAIN inst |->
            IF <<ModelName, f>> \in DOMAIN diffs /\ f \in Fields
            THEN Coerce(f, PatchApply(diffs[<<ModelName, f>>],
                                      ForceUnicode(inst[f])))
            ELSE inst[f]]

\* A variant of RevertComment that names the following revision.
RevertCommentNext(n) == <<"Reverted to revision #", n + 1>>

\* reapply, line 122
RevertComment(n) == <<"Reverted to revision #", n>>

\* A variant of MarkReverted that flips the flag.
MarkToggled(cs) == [cs EXCEPT !.reverted = ~@]

\* reapply, line 118: changeset.reverted = True
MarkReverted(cs) == [cs EXCEPT !.reverted = TRUE]

\* Revision.save for a row that has an id: the loop of lines 69-77 around
\* an UPDATE.  The result is the table, or <<>> when the call gives up.
RECURSIVE UpdateRow(_, _, _)
UpdateRow(rows, r, attempt) ==
    IF Conflict(rows, r)
    THEN IF GiveUp(attempt + 1) THEN <<>>
         ELSE UpdateRow(rows, [r EXCEPT !.revision = Bump(@)], attempt + 1)
    ELSE [rows EXCEPT ![r.id] = r]

(* ---------------- Revision.display_diff: the replay ------------------ *)

\* A variant of NewerChangesets that orders by ascending id.
NewerChangesetsOldestFirst(rows, self) ==
    Descending({r \in Rows(rows) : r.revision >= self.revision},
               [i \in DOMAIN rows |-> 0 - i])

\* A variant of NewerChangesets that filters with revision__gt.
NewerChangesetsExclusive(rows, self) ==
    Descending({r \in Rows(rows) : r.revision > self.revision},
               [i \in DOMAIN rows |-> i])

\* display_diff, lines 138-140: filter(revision__gte=...), Meta.ordering
\* ('-id',).
NewerChangesets(rows, self) ==
    Descending({r \in Rows(rows) : r.revision >= self.revision},
               [i \in DOMAIN rows |-> i])

\* display_diff, lines 151-158: the blocks of one changeset applied to the
\* copy; the patched text is stored as it is.
DisplayDelta(old, delta) ==
    LET diffs == DiffSplitByFields(delta)
    IN  [f \in DOMAIN old |->
            IF <<ModelName, f>> \in DOMAIN diffs /\ f \in Fields
            THEN PatchApply(diffs[<<ModelName, f>>], ForceUnicode(old[f]))
            ELSE old[f]]

\* display_diff, lines 145-158: the walk over the changesets from index i;
\* next_rev is the copy taken when the last changeset is reached.
RECURSIVE Walk(_, _, _, _)
Walk(newer, i, old, next_rev) ==
    IF i > Len(newer) THEN [old |-> old, next_rev |-> next_rev]
    ELSE Walk(newer, i + 1, DisplayDelta(old, newer[i].delta),
              IF Len(newer) = i THEN old ELSE next_rev)

\* display_diff's before-state of Revision self: the copy old after the
\* walk over the changesets numbered self.revision and above.
Reconstruct(rows, live, self) ==
    Walk(NewerChangesets(rows, self), 1, live, live).old

(* ---------------------- Revision.reapply: the call -------------------- *)

\* reapply is called on Revision R: self.content_object is fetched.
ReapplyFetch(p) ==
    /\ MayStart(p)
    /\ Room(p) /\ Early
    /\ stored.exists
    /\ \E R \in DOMAIN revs, ed \in InEditors :
        loc' = [loc EXCEPT ![p] =
                  [Idle EXCEPT !.op = "reapply",
                               !.self = revs[R],
                               !.inst = stored.f,
                               !.editor = ed,
                               !.editor_ip = None,
                               !.g_editor = ed,
                               !.g_recon = Reconstruct(revs, stored.f,
                                                       revs[R])]]
    /\ pc' = [pc EXCEPT ![p] = "query"]
    /\ serial' = (serial /\ ~OthersActive(p))
    /\ UNCHANGED <<stored, revs, load>>

\* The loop of line 98 starts: the queryset next_changes is evaluated.
ReapplyQuery(p) ==
    /\ pc[p] = "query"
    /\ loc' = [loc EXCEPT ![p].todo = NextChanges(revs, loc[p].self),
                          ![p].g_len = Len(revs)]
    /\ pc' = [pc EXCEPT ![p] = "replay"]
    /\ UNCHANGED <<stored, revs, serial, load>>

\* One pass of the loop of lines 98-119: the changeset's blocks are applied
\* to the instance, then the changeset is saved with reverted = True.
ReapplyChangeset(p) ==
    /\ pc[p] = "replay"
    /\ loc[p].todo # <<>>
    /\ LET cs == Head(loc[p].todo)
           row == [MarkReverted(cs) EXCEPT !.sha1 = SaveSha1(cs)]
           out == UpdateRow(revs, row, 0)
       IN  IF out = <<>>
           THEN /\ pc' = [pc EXCEPT ![p] = "raised"]
                /\ UNCHANGED <<revs, loc>>
           ELSE /\ revs' = out
                /\ loc' = [loc EXCEPT
                      ![p].inst = ReapplyDelta(@, cs.delta),
                      ![p].todo = Tail(@),
                      ![p].g_flagged = @ \cup {cs.id},
                      ![p].g_changed = IF revs[cs.id].reverted THEN @
                                       ELSE @ \cup {cs.id},
                      ![p].g_applied = Append(@, cs.revision),
                      ![p].g_skipped = @ \cup
                          {<<cs.id, k>> : k \in SkippedKeys(cs.delta)},
                      ![p].g_bad = @ \/ cs.sha1 # Sha1(cs.delta)]
                /\ pc' = pc
    /\ UNCHANGED <<stored, serial, load>>

\* reapply, lines 121-126: revision_info is attached and the instance is
\* saved, which runs pre_save.
ReapplySave(p) ==
    /\ pc[p] = "replay"
    /\ loc[p].todo = <<>>
    /\ \E rq \in InRequests :
        LET info0 == [NoInfo EXCEPT
                        !.keys = {"comment", "editor_ip", "editor"},
                        !.comment = RevertComment(loc[p].self.revision),
                        !.editor_ip = loc[p].editor_ip,
                        !.editor = loc[p].editor]
        IN  loc' = [loc EXCEPT
                      ![p].info = PreSaveInfo(info0, loc[p].inst, Original, rq),
                      ![p].g_nochange = (loc[p].inst = Original),
                      ![p].g_request = rq]
    /\ pc' = [pc EXCEPT ![p] = "write"]
    /\ UNCHANGED <<stored, revs, serial, load>>

(* ------------------- Revision.display_diff: the call ------------------ *)

\* dmp.diff_main(before, after), rendered per field at lines 161-165.
DiffMain(before, after) == [before |-> before, after |-> after]

\* A variant of ContentObjectAfter in which old is self.content_object
\* itself, not a copy.
ContentObjectAliased(content_object, old) == old

\* display_diff, line 132: old is a copy of self.content_object, so the
\* setattr calls of line 156 leave the cached entity as it was.
ContentObjectAfter(content_object, old) == content_object

\* display_diff is called on Revision R: the content object is fetched
\* (and stays cached on the Revision instance); an empty delta ends the call.
DiffFetch(p) ==
    /\ MayStart(p)
    /\ load \in {"serial", "edits", "legacy"}
    /\ ~OthersActive(p)
    /\ stored.exists
    /\ \E R \in DOMAIN revs :
        /\ loc' = [loc EXCEPT ![p] =
                     [Idle EXCEPT !.op = "diff",
                                  !.self = revs[R],
                                  !.inst = stored.f]]
        /\ pc' = [pc EXCEPT ![p] =
                    IF DOMAIN revs[R].delta = {} THEN "diffed" ELSE "dquery"]
    /\ serial' = (serial /\ ~OthersActive(p))
    /\ UNCHANGED <<stored, revs, load>>

\* The loop of line 145 evaluates newer_changesets and walks it; the
\* result is built from the two copies.
DiffQuery(p) ==
    /\ pc[p] = "dquery"
    /\ LET newer == NewerChangesets(revs, loc[p].self)
           w == Walk(newer, 1, loc[p].inst, loc[p].inst)
       IN  IF newer = <<>>
           THEN /\ pc' = [pc EXCEPT ![p] = "raised"]
                /\ loc' = loc
           ELSE /\ pc' = [pc EXCEPT ![p] = "diffed"]
                /\ loc' = [loc EXCEPT
                      ![p].result =
                          [f \in Fields |->
                              DiffMain(ForceUnicode(w.old[f]),
                                       ForceUnicode(w.next_rev[f]))],
                      ![p].inst = ContentObjectAfter(@, w.old),
                      ![p].g_old = w.old,
                      ![p].g_bad = \E i \in DOMAIN newer :
                                      newer[i].sha1 # Sha1(newer[i].delta),
                      ![p].g_skipped =
                          UNION {{<<newer[i].id, k>> :
                                     k \in SkippedKeys(newer[i].delta)} :
                                 i \in DOMAIN newer},
                      ![p].calls = 1,
                      ![p].g_snap = <<stored, revs>>]
    /\ UNCHANGED <<stored, revs, serial, load>>

\* The caller calls display_diff once more on the same Revision instance:
\* self.content_object is cached, newer_changesets is queried again.
DiffAgain(p) ==
    /\ pc[p] = "diffed"
    /\ loc[p].op = "diff"
    /\ loc[p].calls = 1
    /\ load \in Serials
    /\ LET newer == NewerChangesets(revs, loc[p].self)
           w == Walk(newer, 1, loc[p].inst, loc[p].inst)
       IN  IF newer = <<>>
           THEN /\ pc' = [pc EXCEPT ![p] = "raised"]
                /\ loc' = loc
           ELSE /\ pc' = pc
                /\ loc' = [loc EXCEPT
                      ![p].result =
                          [f \in Fields |->
                              DiffMain(ForceUnicode(w.old[f]),
                                       ForceUnicode(w.next_rev[f]))],
                      ![p].inst = ContentObjectAfter(@, w.old),
                      ![p].g_old = w.old,
                      ![p].g_bad = \E i \in DOMAIN newer :
                                      newer[i].sha1 # Sha1(newer[i].delta),
                      ![p].calls = 2,
                      ![p].g_first = loc[p].result,
                      ![p].g_same = (loc[p].g_snap = <<stored, revs>>)]
    /\ UNCHANGED <<stored, revs, serial, load>>

\* The finished call returns (or its exception reaches the caller).
Return(p) ==
    /\ pc[p] \in {"saved", "raised", "diffed"}
    /\ pc' = [pc EXCEPT ![p] = "idle"]
    /\ loc' = [loc EXCEPT ![p] = Idle]
    /\ UNCHANGED <<stored, revs, serial, load>>

Next ==
    \E p \in Procs :
        \/ PreSave(p)
        \/ PreSaveAgain(p)
        \/ WriteRow(p)
        \/ PostSave(p)
        \/ InsertAttempt(p)
        \/ ReapplyFetch(p)
        \/ ReapplyQuery(p)
        \/ ReapplyChangeset(p)
        \/ ReapplySave(p)
        \/ DiffFetch(p)
        \/ DiffQuery(p)
        \/ DiffAgain(p)
        \/ Return(p)

Spec == Init /\ [][Next]_vars

(* -------------------------- storage corruption ------------------------ *)

\* The store damages one Revision row: its sha1 no longer is the hash of
\* its delta.  At most one row is damaged at a time.
Corrupt ==
    /\ \A i \in DOMAIN revs : revs[i].sha1 = Sha1(revs[i].delta)
    /\ \E i \in DOMAIN revs :
           revs' = [revs EXCEPT ![i].sha1 = Sha1(<<>>)]
    /\ UNCHANGED <<stored, pc, loc, serial, load>>

\* The calls of the "legacy" workload on a store that may damage a row.
InitCorrupt == Init /\ load = "legacy"
NextCorrupt == Next \/ Corrupt
SpecCorrupt == InitCorrupt /\ [][NextCorrupt]_vars

(* ------------------------------ properties ---------------------------- *)

\* The calls that add a Revision.
Writes == {"save", "reapply"}

\* C1: no two persisted Revisions of the object have the same revision
\* number, whatever the interleaving of saves and reverts.
C1_UniqueNumbers ==
    \A i, j \in DOMAIN revs : i # j => revs[i].revision # revs[j].revision

\* A revert's Revision was inserted on a retry, after a concurrent writer
\* had taken its first candidate.
C1_Witness ==
    \E p \in Procs : /\ pc[p] = "saved"
                     /\ loc[p].op = "reapply"
                     /\ loc[p].g_tries > 1
                     /\ loc[p].g_new # 0

\* Two finished calls of Revision.save that read the same latest Revision
\* and so computed the same first candidate.
SameCandidate(p, q) ==
    /\ p # q
    /\ pc[p] \in {"saved", "raised"} /\ pc[q] \in {"saved", "raised"}
    /\ loc[p].op \in Writes /\ loc[q].op \in Writes
    /\ loc[p].g_cand > 0
    /\ loc[p].g_cand = loc[q].g_cand
    /\ loc[p].g_readLen = loc[q].g_readLen

\* C2: when two writers computed the same candidate n, both calls
\* complete, one Revision is persisted with n and the other with a greater
\* number, and the store holds exactly one new Revision per writer.
C2_BothPersist ==
    \A p, q \in Procs :
        SameCandidate(p, q) =>
            LET n == loc[p].g_cand
                a == loc[p].g_new
                b == loc[q].g_new
            IN  /\ pc[p] = "saved" /\ pc[q] = "saved"
                /\ a # 0 /\ b # 0 /\ a # b
                /\ Len(revs) = loc[p].g_readLen + 2
                /\ \/ revs[a].revision = n /\ revs[b].revision > n
                   \/ revs[b].revision = n /\ revs[a].revision > n

\* Both writers have finished after reading the same latest Revision.
C2_Witness ==
    \E p, q \in Procs : SameCandidate(p, q) /\ loc[p].g_tries > 1

\* C3: the first persisted Revision has number 1 and every Revision has a
\* greater number than all Revisions persisted before it.
C3_Increasing ==
    /\ revs # <<>> => revs[1].revision = 1
    /\ \A i, j \in DOMAIN revs : i < j => revs[i].revision < revs[j].revision

\* A third Revision was persisted on a retry.
C3_Witness ==
    /\ Len(revs) >= 3
    /\ \E p \in Procs : pc[p] = "saved" /\ loc[p].g_tries > 1
                        /\ loc[p].g_new = Len(revs)

\* C4: one call of Revision.save makes at most 20 persistence attempts; it
\* gives up after the 20th failed attempt and has then persisted nothing.
C4_TwentyAttempts ==
    \A p \in Procs :
        /\ loc[p].g_tries <= 20
        /\ (pc[p] = "raised" /\ loc[p].op \in Writes) =>
               (loc[p].g_tries = 20 /\ loc[p].g_new = 0)

\* s lists the members of the set S of numbers, highest first.
IsDescendingListOf(s, S) ==
    /\ {s[i] : i \in DOMAIN s} = S
    /\ \A i, j \in DOMAIN s : i < j => s[i] > s[j]

Scenario ==
    /\ Len(revs) = 2
    /\ stored.f["title"] = "C"
    /\ revs[1].delta[<<ModelName, "title">>] = Diff("B", "A")
    /\ revs[2].delta[<<ModelName, "title">>] = Diff("C", "B")

C7_RevertAtomic ==
    \A p \in Procs :
        (pc[p] = "raised" /\ loc[p].op = "reapply") => loc[p].g_changed = {}

\* A step of a revert keeps every Revision with its number and delta, and
\* adds a Revision only as its last step.
C8_Step ==
    \A p \in Procs :
        (loc[p].op = "reapply" /\ <<pc[p], loc[p]>> # <<pc'[p], loc'[p]>>) =>
            /\ Len(revs') = Len(revs) + (IF pc'[p] = "saved" THEN 1 ELSE 0)
            /\ \A i \in DOMAIN revs :
                  /\ revs'[i].revision = revs[i].revision
                  /\ revs'[i].delta = revs[i].delta

\* The Revision a completed revert has added.
C8_State ==
    \A p \in Procs :
        (pc[p] = "saved" /\ loc[p].op = "reapply") =>
            /\ loc[p].g_new # 0
            /\ revs[loc[p].g_new].comment =
                   <<"Reverted to revision #", loc[p].self.revision>>
            /\ \A i \in 1..(loc[p].g_new - 1) :
                   revs[i].revision < revs[loc[p].g_new].revision

\* C8: a completed revert to R adds exactly one Revision, numbered above
\* every existing one and commented 'Reverted to revision #R'; it deletes no
\* Revision and changes no Revision's number or delta.
C8_RevertIsNewChange == [](C8_State) /\ [][C8_Step]_vars

\* A revert that undid a Revision has completed.
C8_Witness ==
    \E p \in Procs : /\ pc[p] = "saved" /\ loc[p].op = "reapply"
                     /\ loc[p].g_changed # {}
                     /\ loc[p].g_new = Len(revs)

\* The editor the Revision of a save is to record: the caller's, when it
\* has a pk; else the request's user, when that has a pk; else None.
ExpectedEditor(ed, rq) ==
    IF Pk(ed) # 0 THEN ed
    ELSE IF rq.present /\ Pk(rq.user) # 0 THEN rq.user
    ELSE None

\* C9: the Revision of a save records the caller's editor, or else the
\* request's user, and None only when neither has an identity.
C9_EditorRecorded ==
    \A p \in Procs :
        (pc[p] = "saved" /\ loc[p].g_new # 0) =>
            revs[loc[p].g_new].editor =
                ExpectedEditor(loc[p].g_editor, loc[p].g_request)

\* C10: a save creates a Revision exactly when it is the entity's first
\* save or changes a tracked field.
C10_RevisionOnlyOnChange ==
    \A p \in Procs :
        (pc[p] = "saved" /\ loc[p].op \in Writes) =>
            (loc[p].g_new # 0 <=> (loc[p].g_created \/ ~loc[p].g_nochange))

\* C11: each persisted Revision's sha1 is the hash of its persisted delta,
\* after every insert, retry and update.
C11_FingerprintMatches ==
    \A i \in DOMAIN revs : revs[i].sha1 = Sha1(revs[i].delta)

\* A revert whose Revision was inserted on a retry has also rewritten
\* (updated) a Revision it undid.
C11_Witness ==
    \E p \in Procs : /\ pc[p] = "saved" /\ loc[p].op = "reapply"
                     /\ loc[p].g_flagged # {}
                     /\ loc[p].g_tries > 1
                     /\ loc[p].g_new # 0

C13_Step ==
    \A p \in Procs :
        ((loc[p].op = "diff" \/ loc'[p].op = "diff")
            /\ <<pc[p], loc[p]>> # <<pc'[p], loc'[p]>>) =>
            /\ stored' = stored
            /\ revs' = revs
            /\ (loc[p].op = "diff" /\ loc'[p].op = "diff") =>
                   loc'[p].inst = loc[p].inst

\* The second of two calls with no write in between returns what the
\* first returned.
C13_State ==
    \A p \in Procs :
        (pc[p] = "diffed" /\ loc[p].calls = 2 /\ loc[p].g_same) =>
            loc[p].result = loc[p].g_first

\* C13: display_diff changes no field of the entity and no Revision and
\* creates none; called twice on the same Revision with no write in
\* between, it returns the same result.
C13_DiffReadOnly == [](C13_State) /\ [][C13_Step]_vars

\* display_diff was called twice with no write in between, on a Revision
\* whose before-state differs from the live entity.
C13_Witness ==
    \E p \in Procs : /\ pc[p] = "diffed" /\ loc[p].calls = 2
                     /\ loc[p].g_same
                     /\ loc[p].result["title"].before # loc[p].inst["title"]
                     /\ loc[p].result["title"].before #
                            loc[p].result["title"].after

\* A step keeps every persisted Revision, with its number, delta,
\* fingerprint, comment and editor fields; a reverted flag that is set
\* stays set.
C14_Step ==
    \A i \in DOMAIN revs :
        /\ i \in DOMAIN revs'
        /\ revs'[i].id = revs[i].id
        /\ revs'[i].revision = revs[i].revision
        /\ revs'[i].delta = revs[i].delta
        /\ revs'[i].sha1 = revs[i].sha1
        /\ revs'[i].comment = revs[i].comment
        /\ revs'[i].editor = revs[i].editor
        /\ revs'[i].editor_ip = revs[i].editor_ip
        /\ revs[i].reverted => revs'[i].reverted

\* C14: across every operation a persisted Revision is never deleted and
\* its number, delta, fingerprint, comment and editor never change; only
\* reverted may change, and only from false to true.
C14_Immutable == [][C14_Step]_vars

\* A revert has rewritten a Revision that an earlier revert had already
\* flagged.
C14_Witness ==
    \E p \in Procs :
        /\ pc[p] = "saved" /\ loc[p].op = "reapply"
        /\ \E i \in loc[p].g_flagged \ loc[p].g_changed :
               revs[i].reverted /\ revs[i].comment # ""

\* C15: the Revisions a completed reapply(R) has flagged are exactly those
\* numbered above R that existed when the replay query ran, already
\* reverted or not; over a sequential history R itself keeps its flag and
\* the new Revision is not flagged.
C15_FlaggedExactly ==
    \A p \in Procs :
        (pc[p] = "saved" /\ loc[p].op = "reapply") =>
            /\ loc[p].g_flagged =
                   {i \in 1..loc[p].g_len :
                       revs[i].revision > loc[p].self.revision}
            /\ \A i \in loc[p].g_flagged : revs[i].reverted
            /\ loc[p].g_new \notin loc[p].g_flagged
            /\ serial =>
                   /\ ~revs[loc[p].g_new].reverted
                   /\ revs[loc[p].self.id].reverted = loc[p].self.reverted
                   /\ \A i \in 1..loc[p].g_len :
                          (i \notin loc[p].g_flagged /\ revs[i].reverted) =>
                              i \notin loc[p].g_changed

\* A revert has flagged two Revisions, one of them reverted before.
C15_Witness ==
    \E p \in Procs : /\ serial /\ pc[p] = "saved" /\ loc[p].op = "reapply"
                     /\ Cardinality(loc[p].g_flagged) = 2
                     /\ loc[p].g_flagged # loc[p].g_changed
                     /\ loc[p].g_new = Len(revs)

\* The tracked blocks of the Revisions i, i-1, ..., 1 each start from the
\* value the replay has reached: cur holds the fields after the deltas of
\* the Revisions above i.
RECURSIVE ChainHolds(_, _, _)
ChainHolds(rows, i, cur) ==
    IF i = 0 THEN TRUE
    ELSE LET d == rows[i].delta
             mine == {f \in Fields : <<ModelName, f>> \in DOMAIN d}
         IN  /\ \A f \in mine : d[<<ModelName, f>>].from = cur[f]
             /\ ChainHolds(rows, i - 1,
                    [f \in DOMAIN cur |->
                        IF f \in mine THEN d[<<ModelName, f>>].to
                        ELSE cur[f]])

\* C16: a replay that meets blocks of another model or of an unregistered
\* field passes over them without error: it goes on through the remaining
\* blocks and Revisions, so that the tracked fields come out as without
\* those blocks, and the fields the blocks name keep their values.
C16_SkippedBlocks ==
    \A p \in Procs :
        loc[p].g_skipped # {} =>
            /\ pc[p] # "raised"
            /\ \A f \in EntityFields \ Fields :
                  /\ loc[p].op = "reapply" => loc[p].inst[f] = stored.f[f]
                  /\ loc[p].op = "diff" => loc[p].g_old[f] = loc[p].inst[f]
            /\ (pc[p] = "saved" /\ loc[p].op = "reapply") =>
                  /\ \A f \in Fields : stored.f[f] = loc[p].self.g_post[f]
                  /\ Len(loc[p].g_applied) =
                         Cardinality({i \in 1..loc[p].g_len :
                             revs[i].revision > loc[p].self.revision})
            /\ (pc[p] = "diffed" /\ loc[p].op = "diff") =>
                  \A f \in Fields :
                      /\ loc[p].result[f].before = loc[p].self.g_pre[f]
                      /\ loc[p].result[f].after = loc[p].self.g_post[f]

\* A revert has passed over a block of another model and a block of an
\* unregistered field, applied the tracked block of the same Revision and
\* changed the entity.
C16_Witness ==
    \E p \in Procs :
        /\ pc[p] = "saved" /\ loc[p].op = "reapply"
        /\ \E x, y \in loc[p].g_skipped :
               /\ x[1] = y[1]
               /\ x[2][1] = OtherModel
               /\ y[2] = <<ModelName, "body">>
        /\ loc[p].g_pre # stored.f
        /\ loc[p].g_new = Len(revs)

\* C17: an operation that replays the delta of a Revision whose stored
\* sha1 is not the hash of its stored delta fails instead of applying it.
C17_MismatchIsFatal ==
    \A p \in Procs : loc[p].g_bad => pc[p] = "raised"

\* C18: when two overlapping saves of the entity have both completed, the
\* stored deltas form a replayable chain: replayed newest first from the
\* live state, each delta meets exactly the value it was computed from.
C18_ReplayableChain ==
    \A p, q \in Procs :
        (p # q /\ pc[p] = "saved" /\ pc[q] = "saved"
             /\ loc[p].op = "save" /\ loc[q].op = "save"
             /\ loc[p].g_new # 0 /\ loc[q].g_new # 0) =>
            ChainHolds(revs, Len(revs), stored.f)

\* C19: the revision numbers persisted for the object are exactly 1..n for
\* n Revisions, in every reachable state.
C19_GapFree ==
    {revs[i].revision : i \in DOMAIN revs} = 1..Len(revs)

\* A writer has exhausted its retries and persisted nothing, while the
\* other writers' Revisions fill the table.
C19_Witness ==
    \E p \in Procs : /\ pc[p] = "raised" /\ loc[p].op \in Writes
                     /\ loc[p].g_new = 0
                     /\ loc[p].g_tries > MaxAttempts
                     /\ Len(revs) > MaxAttempts

\* C20: a Revision records the comment and editor_ip supplied for the save
\* that created it: the revert comment for a revert, none for a save, also
\* when the instance saved is one that an earlier save or revert left its
\* revision_info on.
C20_OwnComment ==
    \A p \in Procs :
        (pc[p] = "saved" /\ loc[p].g_new # 0) =>
            /\ revs[loc[p].g_new].comment =
                   (IF loc[p].op = "reapply"
                    THEN <<"Reverted to revision #", loc[p].self.revision>>
                    ELSE "")
            /\ revs[loc[p].g_new].editor_ip =
                   (IF loc[p].op = "reapply" /\ Truthy(loc[p].editor_ip)
                    THEN loc[p].editor_ip
                    ELSE IF loc[p].g_request.present
                    THEN loc[p].g_request.addr
                    ELSE None)

=============================================================================
